---- MODULE Spec2Model ----
(***************************************************************************)
(* Model of functions/index.js: the three HTTP handlers helloWorld,        *)
(* getUserNotes and summarizeNote, with the helpers extractIdToken and     *)
(* mockSummarize.                                                         *)
(*                                                                         *)
(* Strings that the code converts (trim, regex match, split, slice) are    *)
(* sequences of one-character strings; fixed messages are TLA+ strings.    *)
(* JavaScript values are tagged records: [t |-> "undef"], [t |-> "str",    *)
(* v |-> <<chars>>], [t |-> "num", v |-> n], [t |-> "arr"].                *)
(***************************************************************************)
EXTENDS Integers, Sequences, FiniteSets, TLC

VARIABLES
    env,        \* process.env, fixed at cold start
    store,      \* document store: uid -> sequence of note documents
    handler,    \* which handler the invocation in flight runs ("none" if idle)
    request,    \* the inbound request of the invocation
    pc,         \* position of the invocation (the await it is suspended at)
    noteId,     \* summarizeNote: const noteId
    idToken,    \* const idToken
    uid,        \* decoded.uid
    text,       \* summarizeNote: const text
    openAiResp, \* summarizeNote: const openAiResp
    responses,  \* responses sent on the response object, in order
    trace,      \* history: stages passed and collaborator calls, in order
    escaped,    \* an exception left the handler
    mtext,      \* mockSummarize called alone: its argument
    mout,       \* ... its result
    mpc         \* ... "call" before, "done" after

vars == <<env, store, handler, request, pc, noteId, idToken, uid, text,
          openAiResp, responses, trace, escaped, mtext, mout, mpc>>

handlerVars == <<env, store, handler, request, pc, noteId, idToken, uid, text,
                 openAiResp, responses, trace, escaped>>

mockVars == <<mtext, mout, mpc>>

----------------------------------------------------------------------------
(* JavaScript values                                                       *)

Undef == [t |-> "undef"]
Str(s) == [t |-> "str", v |-> s]
Num(n) == [t |-> "num", v |-> n]
Arr == [t |-> "arr"]

\* ToBoolean: undefined, "" and 0 are falsy; an array is truthy
Truthy(x) ==
    CASE x.t = "undef" -> FALSE
      [] x.t = "str" -> x.v # <<>>
      [] x.t = "num" -> x.v # 0
      [] OTHER -> TRUE

\* a || b
Or(a, b) == IF Truthy(a) THEN a ELSE b

\* has the value a method trim (is it a string)
HasTrim(x) == x.t = "str"

----------------------------------------------------------------------------
(* Characters and strings                                                  *)

\* \s of a regular expression, and the white space String.prototype.trim strips
IsWs(c) == c \in {" ", "\t", "\n"}

\* [.!?]
IsSentenceEnd(c) == c \in {".", "!", "?"}

Min(a, b) == IF a < b THEN a ELSE b

\* s.slice(0, n)
Slice0(s, n) == SubSeq(s, 1, Min(n, Len(s)))

\* s.trim(): from the first to the last character that is not white space
NonWs(s) == {i \in 1..Len(s) : ~IsWs(s[i])}

TrimFirst(s) == CHOOSE i \in NonWs(s) : \A j \in 1..(i - 1) : IsWs(s[j])

TrimLast(s) == CHOOSE i \in NonWs(s) : \A j \in (i + 1)..Len(s) : IsWs(s[j])

Trim(s) == IF NonWs(s) = {} THEN <<>> ELSE SubSeq(s, TrimFirst(s), TrimLast(s))

\* s.replace(/\s+/g, " "): every maximal run of white space becomes one space:
\* the first character of a run is replaced by a space, the others dropped
RunTail(p) == p.ws /\ p.prevWs

NotRunTail(p) == ~RunTail(p)

Marked(s) ==
    [i \in 1..Len(s) |-> [c |-> s[i], ws |-> IsWs(s[i]), prevWs |-> i > 1 /\ IsWs(s[i - 1])]]

CollapseWs(s) ==
    LET kept == SelectSeq(Marked(s), NotRunTail)
    IN [i \in 1..Len(kept) |-> IF kept[i].ws THEN " " ELSE kept[i].c]

\* t.split(/(?<=[.!?])\s+/)[0]: the text before the first white space that
\* follows a sentence end, the whole text when there is none
IsSplitPoint(t, i) == i > 1 /\ IsWs(t[i]) /\ IsSentenceEnd(t[i - 1])

HasSplitPoint(t) == \E i \in 1..Len(t) : IsSplitPoint(t, i)

FirstSplitPoint(t) ==
    CHOOSE i \in 1..Len(t) : IsSplitPoint(t, i) /\ \A j \in 1..(i - 1) : ~IsSplitPoint(t, j)

SplitFirst(t) ==
    IF HasSplitPoint(t) THEN SubSeq(t, 1, FirstSplitPoint(t) - 1) ELSE t

\* String(x) of a value that is a string or undefined-replaced-by-""
ToStringSeq(x) == IF x.t = "str" THEN x.v ELSE <<>>

----------------------------------------------------------------------------
(* mockSummarize                                                           *)

ClipLen == 240

\* the one character U+2026
Ellipsis == "..."

NotaVacia == <<"(", "N", "o", "t", "a", " ", "v", "a", "c", "i", "a", ")">>

Label == <<"R", "e", "s", "u", "m", "e", "n", ":", " ">>

mockSummarize_NoEllipsis(x) ==
    LET t == CollapseWs(Trim(ToStringSeq(Or(x, Str(<<>>)))))
        first == SplitFirst(t)
        firstSentence == IF first # <<>> THEN first ELSE Slice0(t, ClipLen)
    IN IF t = <<>> THEN NotaVacia ELSE Label \o Slice0(firstSentence, ClipLen)

mockSummarize(x) ==
    LET t == CollapseWs(Trim(ToStringSeq(Or(x, Str(<<>>)))))
        first == SplitFirst(t)
        firstSentence == IF first # <<>> THEN first ELSE Slice0(t, ClipLen)
        clipped == IF Len(firstSentence) > ClipLen
                   THEN Append(Slice0(firstSentence, ClipLen), Ellipsis)
                   ELSE firstSentence
    IN IF t = <<>> THEN NotaVacia ELSE Label \o clipped

----------------------------------------------------------------------------
(* Configuration read from process.env                                     *)

TrueStr == <<"t", "r", "u", "e">>
OneStr == <<"1">>

EnvNames == {"FUNCTIONS_EMULATOR", "FIREBASE_AUTH_EMULATOR_HOST",
             "FIRESTORE_EMULATOR_HOST", "OPENAI_API_KEY", "openai_key",
             "USE_MOCK_OPENAI"}

isEmulator ==
    \/ env["FUNCTIONS_EMULATOR"] = Str(TrueStr)
    \/ Truthy(env["FIREBASE_AUTH_EMULATOR_HOST"])
    \/ Truthy(env["FIRESTORE_EMULATOR_HOST"])

\* const apiKey = process.env.OPENAI_API_KEY || process.env.openai_key || ""
apiKey == Or(Or(env["OPENAI_API_KEY"], env["openai_key"]), Str(<<>>))

\* process.env.USE_MOCK_OPENAI === "1"
forceMock == env["USE_MOCK_OPENAI"] = Str(OneStr)

SummaryPath_KeyFirst ==
    IF Truthy(apiKey) THEN "live"
    ELSE IF forceMock \/ isEmulator THEN "mock"
    ELSE "nokey"

SummaryPath_EmulatorAlone ==
    IF forceMock \/ isEmulator THEN "mock"
    ELSE IF ~Truthy(apiKey) THEN "nokey"
    ELSE "live"

\* if (USE_MOCK_OPENAI === "1" || (isEmulator && !apiKey)) mock;
\* else if (!apiKey) misconfigured; else live
SummaryPath ==
    IF forceMock \/ (isEmulator /\ ~Truthy(apiKey)) THEN "mock"
    ELSE IF ~Truthy(apiKey) THEN "nokey"
    ELSE "live"

----------------------------------------------------------------------------
(* extractIdToken                                                          *)

UpperToLower ==
    [c \in {"A", "B", "E", "R"} |->
        CASE c = "A" -> "a" [] c = "B" -> "b" [] c = "E" -> "e" [] c = "R" -> "r"]

Lower(c) == IF c \in DOMAIN UpperToLower THEN UpperToLower[c] ELSE c

BearerPrefix == <<"b", "e", "a", "r", "e", "r", " ">>

\* "." of a regular expression matches anything but a line terminator
IsLineTerminator(c) == c \in {"\n", "\r"}

\* authHeader.match(/^Bearer (.+)$/i)
MatchesBearer(h) ==
    /\ Len(h) > Len(BearerPrefix)
    /\ \A i \in 1..Len(BearerPrefix) : Lower(h[i]) = BearerPrefix[i]
    /\ \A i \in (Len(BearerPrefix) + 1)..Len(h) : ~IsLineTerminator(h[i])

\* request.headers.authorization || request.headers.Authorization || ""
AuthHeader(req) ==
    Or(Or(req.headers.authorization, req.headers.Authorization), Str(<<>>))

\* [ok |-> FALSE] stands for the Error thrown, else match[1]
extractIdToken(req) ==
    LET h == AuthHeader(req).v
    IN IF MatchesBearer(h)
       THEN [ok |-> TRUE, token |-> SubSeq(h, Len(BearerPrefix) + 1, Len(h))]
       ELSE [ok |-> FALSE]

----------------------------------------------------------------------------
(* Collaborators: identity backend and document store                      *)

\* getAuth().verifyIdToken(idToken): the uid of an accepted token, or a rejection
verifyIdToken(token) ==
    IF token = <<"A">> THEN [ok |-> TRUE, uid |-> "u1"]
    ELSE IF token = <<"B">> THEN [ok |-> TRUE, uid |-> "u2"]
    ELSE [ok |-> FALSE]

Uids == {"u1", "u2"}

\* db.collection("users").doc(uid).collection("notes").get(): snap.docs
NotesOf(u) == IF u \in DOMAIN store THEN store[u] ELSE <<>>

\* ....collection("notes").doc(noteId).get(): the document, exists false if none
NoteSnap(u, id) ==
    LET hits == {i \in 1..Len(NotesOf(u)) : NotesOf(u)[i].id = id}
    IN IF hits = {} THEN [exists |-> FALSE]
       ELSE [exists |-> TRUE, data |-> NotesOf(u)[CHOOSE i \in hits : TRUE].data]

\* data.f of a document: undefined when the field is absent
Field(data, f) == IF f \in DOMAIN data THEN data[f] ELSE Undef

NoteText_BodyFirst(data) ==
    Or(Or(Or(Field(data, "body"), Field(data, "text")), Field(data, "content")),
       Str(<<>>))

\* const text = data.content || data.text || data.body || ""
NoteText(data) ==
    Or(Or(Or(Field(data, "content"), Field(data, "text")), Field(data, "body")),
       Str(<<>>))

\* (d) => ({id: d.id, ...d.data()}): the spread fields are written after id
NoteEntry(d) ==
    [k \in {"id"} \cup DOMAIN d.data |->
        IF k \in DOMAIN d.data THEN d.data[k] ELSE Str(d.id)]

NotesList(docs) == [i \in 1..Len(docs) |-> NoteEntry(docs[i])]

----------------------------------------------------------------------------
(* summarizeNote: request parsing and live summary                         *)

\* request.body && request.body.id
BodyId(req) == IF Truthy(req.body) THEN req.body.id ELSE req.body

\* request.query.id || (request.body && request.body.id) || ""
RawNoteId(req) == Or(Or(req.query.id, BodyId(req)), Str(<<>>))

NoSummary == <<"(", "N", "o", " ", "s", "u", "m", "m", "a", "r", "y", ")">>

\* aiJson.choices?.[0]?.message?.content?.trim() || "(No summary)";
\* [ok |-> FALSE] stands for the TypeError of null.choices or of a content
\* that has no trim
LiveSummary(aiJson) ==
    IF aiJson.t = "null" THEN [ok |-> FALSE]
    ELSE LET c == aiJson.content
         IN IF c.t = "undef" THEN [ok |-> TRUE, summary |-> NoSummary]
            ELSE IF ~HasTrim(c) THEN [ok |-> FALSE]
            ELSE [ok |-> TRUE,
                  summary |-> Or(Str(Trim(c.v)), Str(NoSummary)).v]

----------------------------------------------------------------------------
(* An idle process: no invocation in flight                               *)

NoRequest == [kind |-> "none"]
NoResp == [kind |-> "none"]

IdleHandler ==
    /\ handler = "none"
    /\ request = NoRequest
    /\ pc = "idle"
    /\ noteId = <<>>
    /\ idToken = <<>>
    /\ uid = ""
    /\ text = Undef
    /\ openAiResp = NoResp
    /\ responses = <<>>
    /\ trace = <<>>
    /\ escaped = FALSE

----------------------------------------------------------------------------
(* Inputs: configurations, stores, requests, backend outcomes              *)

EnvValues(n) ==
    CASE n = "FUNCTIONS_EMULATOR" -> {Undef, Str(TrueStr), Str(OneStr)}
      [] n = "USE_MOCK_OPENAI" -> {Undef, Str(OneStr), Str(TrueStr)}
      [] n \in {"OPENAI_API_KEY", "openai_key"} -> {Undef, Str(<<"k">>)}
      [] OTHER -> {Undef, Str(<<"h">>)}

Envs == {e \in [EnvNames -> {Undef, Str(TrueStr), Str(OneStr), Str(<<"k">>), Str(<<"h">>)}] :
            \A n \in EnvNames : e[n] \in EnvValues(n)}

N1 == <<"n", "1">>
N2 == <<"n", "2">>

TextFields == {"content", "text", "body"}

\* what a text field holds when it is populated; each field its own text
Populated(f) ==
    CASE f = "content" -> <<"C", ".", " ", "c">>
      [] f = "text" -> <<" ", "T", "\t", " ", "t", "!">>
      [] OTHER -> <<"B">>

\* every note over the three text fields, each absent, empty or populated
TextDatas ==
    UNION {{d \in [F -> {Str(<<>>)} \cup {Str(Populated(f)) : f \in TextFields}] :
                \A f \in F : d[f] \in {Str(<<>>), Str(Populated(f))}} :
           F \in SUBSET TextFields}

OtherUserNote == [id |-> N1, data |-> [body |-> Str(<<"Z", "?", " ", "z">>)]]

SecondNote == [id |-> N2, data |-> [text |-> Str(<<"S", "e", "c", "o", "n", "d">>)]]

\* user u1 holds note n1 and a second note n2, user u2 a note n1 of its own
SummarizeStores ==
    {[u \in Uids |->
        IF u = "u1" THEN <<[id |-> N1, data |-> d], SecondNote>> ELSE <<OtherUserNote>>] :
        d \in TextDatas}

\* a note with content alone, and one whose text is found in the last field
CoreStores ==
    {st \in SummarizeStores :
        st["u1"][1].data \in {[content |-> Str(Populated("content"))],
                              [content |-> Str(<<>>), body |-> Str(Populated("body"))]}}

NoEnv == [n \in EnvNames |-> Undef]

\* one configuration for each path: mock forced, no key, live
CoreEnvs ==
    {[NoEnv EXCEPT !["USE_MOCK_OPENAI"] = Str(OneStr)],
     NoEnv,
     [NoEnv EXCEPT !["openai_key"] = Str(<<"k">>)]}

Obj(id) == [t |-> "obj", id |-> id]

QueryIds == {Undef, Str(<<>>), Str(<<" ">>), Str(<<" ", "n", "2", " ">>), Arr}

Bodies == {Undef, Obj(Undef), Obj(Str(<<"n", "1", " ">>)), Obj(Num(7))}

BearerA == <<"B", "e", "a", "r", "e", "r", " ", "A">>
BearerB == <<"B", "E", "A", "R", "E", "R", " ", "B">>
BearerX == <<"b", "e", "a", "r", "e", "r", " ", "X">>
BasicA == <<"B", "a", "s", "i", "c", " ", "A">>

Headers(lower, upper) == [authorization |-> lower, Authorization |-> upper]

HeaderSets ==
    {Headers(Undef, Undef), Headers(Str(BearerA), Undef), Headers(Str(BearerX), Undef),
     Headers(Str(BasicA), Undef), Headers(Undef, Str(BearerB))}

Requests == [query : [id : QueryIds], body : Bodies, headers : HeaderSets]

\* getUserNotes and helloWorld read no query and no body
PlainRequests == {r \in Requests : r.query.id = Undef /\ r.body = Undef}

JsonNull == [t |-> "null"]
Json(content) == [t |-> "obj", content |-> content]

\* what fetch resolves to (a response whose body is read later) or rejects with
FetchOutcomes ==
    {[kind |-> "throw"]}
    \cup {[kind |-> "resp", ok |-> FALSE, status |-> 429, read |-> r] :
            r \in {[ok |-> FALSE], [ok |-> TRUE, text |-> "rate limited"]}}
    \cup {[kind |-> "resp", ok |-> TRUE, status |-> 200, read |-> r] :
            r \in {[ok |-> FALSE]} \cup
                  {[ok |-> TRUE, json |-> j] :
                     j \in {JsonNull, Json(Undef), Json(Str(<<" ">>)),
                            Json(Str(<<" ", "S", ".", " ">>)), Json(Num(5))}}}

----------------------------------------------------------------------------
(* The response object                                                     *)

Json200(body) == [status |-> 200, kind |-> "json", body |-> body]
JsonError(status, msg) == [status |-> status, kind |-> "json", body |-> [error |-> msg]]
Text(status, msg) == [status |-> status, kind |-> "text", body |-> [text |-> msg]]

\* response.status(..).json(..) / .send(..) after the stages, calls and
\* collaborator failures `steps`, ending the invocation
Respond(steps, r) ==
    /\ responses' = Append(responses, r)
    /\ trace' = trace \o steps \o <<"Responded">>
    /\ pc' = "done"

\* the invocation suspends at the await named `at`
Suspend(steps, at) ==
    /\ trace' = trace \o steps
    /\ pc' = at
    /\ UNCHANGED responses

----------------------------------------------------------------------------
(* helloWorld                                                              *)

helloWorld(req) ==
    /\ pc = "idle"
    /\ handler' = "helloWorld"
    /\ request' = req
    /\ Respond(<<"Start">>, Text(200, "Hello from Firebase!"))
    /\ UNCHANGED <<env, store, noteId, idToken, uid, text, openAiResp, escaped, mockVars>>

----------------------------------------------------------------------------
(* getUserNotes                                                            *)

\* catch (err) { response.status(401).send("Unauthorized") }
getUserNotesCatch_Internal == Text(500, "Internal error")

getUserNotesCatch == Text(401, "Unauthorized")

\* up to the await of verifyIdToken
getUserNotes(req) ==
    /\ pc = "idle"
    /\ handler' = "getUserNotes"
    /\ request' = req
    /\ LET tok == extractIdToken(req)
       IN IF tok.ok
          THEN /\ idToken' = tok.token
               /\ Suspend(<<"Start", "verifyIdToken">>, "verify")
          ELSE /\ Respond(<<"Start">>, getUserNotesCatch)
               /\ UNCHANGED idToken
    /\ UNCHANGED <<env, store, noteId, uid, text, openAiResp, escaped, mockVars>>

\* verifyIdToken settles; up to the await of notesCol.get()
getUserNotesVerified ==
    /\ handler = "getUserNotes"
    /\ pc = "verify"
    /\ LET decoded == verifyIdToken(idToken)
       IN IF decoded.ok
          THEN /\ uid' = decoded.uid
               /\ Suspend(<<"Authenticated", "notesGet">>, "notesGet")
          ELSE /\ Respond(<<"verifyRejected">>, getUserNotesCatch)
               /\ UNCHANGED uid
    /\ UNCHANGED <<env, store, handler, request, noteId, idToken, text, openAiResp,
                   escaped, mockVars>>

\* notesCol.get() settles: the snapshot, or a rejection caught by the same catch
getUserNotesFetched(readOk) ==
    /\ handler = "getUserNotes"
    /\ pc = "notesGet"
    /\ IF readOk
       THEN Respond(<<"NotesFetched">>, Json200([notes |-> NotesList(NotesOf(uid))]))
       ELSE Respond(<<"notesGetFailed">>, getUserNotesCatch)
    /\ UNCHANGED <<env, store, handler, request, noteId, idToken, uid, text, openAiResp,
                   escaped, mockVars>>

----------------------------------------------------------------------------
(* summarizeNote                                                           *)

\* lines 81-88: a note id that has no trim throws outside every try block; a
\* blank id is answered before the credential is looked at
SummarizeEntry_AuthFirst(req) ==
    LET raw == RawNoteId(req)
    IN IF ~HasTrim(raw) THEN "throw"
       ELSE IF ~extractIdToken(req).ok THEN "unauthorized"
       ELSE IF Trim(raw.v) = <<>> THEN "missingId"
       ELSE "verify"

SummarizeEntry(req) ==
    LET raw == RawNoteId(req)
    IN IF ~HasTrim(raw) THEN "throw"
       ELSE IF Trim(raw.v) = <<>> THEN "missingId"
       ELSE IF ~extractIdToken(req).ok THEN "unauthorized"
       ELSE "verify"

\* up to the await of verifyIdToken
summarizeNote(req) ==
    /\ pc = "idle"
    /\ handler' = "summarizeNote"
    /\ request' = req
    /\ LET entry == SummarizeEntry(req)
       IN CASE entry = "throw" ->
                 /\ escaped' = TRUE
                 /\ trace' = trace \o <<"Start">>
                 /\ pc' = "done"
                 /\ UNCHANGED <<responses, noteId, idToken>>
            [] entry = "missingId" ->
                 /\ Respond(<<"Start">>, JsonError(400, "Missing note id"))
                 /\ UNCHANGED <<escaped, noteId, idToken>>
            [] entry = "unauthorized" ->
                 /\ noteId' = Trim(RawNoteId(req).v)
                 /\ Respond(<<"Start", "IdParsed">>, JsonError(401, "Unauthorized"))
                 /\ UNCHANGED <<escaped, idToken>>
            [] OTHER ->
                 /\ noteId' = Trim(RawNoteId(req).v)
                 /\ idToken' = extractIdToken(req).token
                 /\ Suspend(<<"Start", "IdParsed", "verifyIdToken">>, "verify")
                 /\ UNCHANGED escaped
    /\ UNCHANGED <<env, store, uid, text, openAiResp, mockVars>>

\* verifyIdToken settles; up to the await of noteRef.get()
summarizeNoteVerified ==
    /\ handler = "summarizeNote"
    /\ pc = "verify"
    /\ LET decoded == verifyIdToken(idToken)
       IN IF decoded.ok
          THEN /\ uid' = decoded.uid
               /\ Suspend(<<"Authenticated", "noteGet">>, "noteGet")
          ELSE /\ Respond(<<"verifyRejected">>, JsonError(401, "Unauthorized"))
               /\ UNCHANGED uid
    /\ UNCHANGED <<env, store, handler, request, noteId, idToken, text, openAiResp,
                   escaped, mockVars>>

\* lines 102-123: what the settled read leads to
NoteOutcome_NoValidate(readOk, noteSnap) ==
    IF ~readOk THEN "failed"
    ELSE IF ~noteSnap.exists THEN "notFound"
    ELSE SummaryPath

NoteOutcome(readOk, noteSnap) ==
    IF ~readOk THEN "failed"
    ELSE IF ~noteSnap.exists THEN "notFound"
    ELSE IF ~Truthy(NoteText(noteSnap.data)) THEN "noText"
    ELSE SummaryPath

\* noteRef.get() settles; existence, text and path decided, up to the await of fetch
summarizeNoteFetched(readOk) ==
    /\ handler = "summarizeNote"
    /\ pc = "noteGet"
    /\ LET noteSnap == NoteSnap(uid, noteId)
           outcome == NoteOutcome(readOk, noteSnap)
       IN CASE outcome = "failed" ->
                 /\ Respond(<<"noteGetFailed">>, JsonError(500, "Internal error"))
                 /\ UNCHANGED text
            [] outcome = "notFound" ->
                 /\ Respond(<<>>, JsonError(404, "Note not found"))
                 /\ UNCHANGED text
            [] outcome = "noText" ->
                 /\ text' = NoteText(noteSnap.data)
                 /\ Respond(<<"NoteFetched">>,
                            JsonError(400, "Note has no text field (expected content/text/body)"))
            [] outcome = "mock" ->
                 /\ text' = NoteText(noteSnap.data)
                 /\ Respond(<<"NoteFetched", "TextValidated", "MockPath">>,
                            Json200([id |-> noteId,
                                     summary |-> mockSummarize(NoteText(noteSnap.data)),
                                     mocked |-> TRUE]))
            [] outcome = "nokey" ->
                 /\ text' = NoteText(noteSnap.data)
                 /\ Respond(<<"NoteFetched", "TextValidated">>,
                            JsonError(500, "OpenAI API key not configured"))
            [] OTHER ->
                 /\ text' = NoteText(noteSnap.data)
                 /\ Suspend(<<"NoteFetched", "TextValidated", "LivePath", "fetch">>, "fetch")
    /\ UNCHANGED <<env, store, handler, request, noteId, idToken, uid, openAiResp,
                   escaped, mockVars>>

\* a handler that calls the backend a second time when the first call fails
summarizeNoteFetchSettled_Retry(outcome) ==
    /\ handler = "summarizeNote"
    /\ pc = "fetch"
    /\ IF outcome.kind = "throw" \/ ~outcome.ok
       THEN IF Len(SelectSeq(trace, LAMBDA e : e = "fetch")) < 2
            THEN /\ Suspend(<<"fetch">>, "fetch")
                 /\ UNCHANGED openAiResp
            ELSE /\ Respond(<<"fetchFailed">>, JsonError(500, "Internal error"))
                 /\ UNCHANGED openAiResp
       ELSE /\ openAiResp' = outcome
            /\ Suspend(<<"respJson">>, "body")
    /\ UNCHANGED <<env, store, handler, request, noteId, idToken, uid, text,
                   escaped, mockVars>>

\* fetch settles; up to the await of openAiResp.text() or openAiResp.json()
summarizeNoteFetchSettled(outcome) ==
    /\ handler = "summarizeNote"
    /\ pc = "fetch"
    /\ IF outcome.kind = "throw"
       THEN /\ Respond(<<"fetchFailed">>, JsonError(500, "Internal error"))
            /\ UNCHANGED openAiResp
       ELSE /\ openAiResp' = outcome
            /\ Suspend(<<IF outcome.ok THEN "respJson" ELSE "respText">>, "body")
    /\ UNCHANGED <<env, store, handler, request, noteId, idToken, uid, text,
                   escaped, mockVars>>

\* the body read settles; 502 with the raw body, or the summary, or the catch
summarizeNoteBodyRead ==
    /\ handler = "summarizeNote"
    /\ pc = "body"
    /\ LET read == openAiResp.read
       IN IF ~read.ok
          THEN Respond(<<"bodyReadFailed">>, JsonError(500, "Internal error"))
          ELSE IF ~openAiResp.ok
          THEN Respond(<<>>, [status |-> 502, kind |-> "json",
                              body |-> [error |-> "Failed to summarize",
                                        details |-> read.text]])
          ELSE IF ~LiveSummary(read.json).ok
          THEN Respond(<<>>, JsonError(500, "Internal error"))
          ELSE Respond(<<>>, Json200([id |-> noteId,
                                      summary |-> LiveSummary(read.json).summary]))
    /\ UNCHANGED <<env, store, handler, request, noteId, idToken, uid, text, openAiResp,
                   escaped, mockVars>>

----------------------------------------------------------------------------
(* The process: one invocation at a time, then the next                    *)

\* the invocation has ended; the process is idle again
Finish ==
    /\ pc = "done"
    /\ handler' = "none"
    /\ request' = NoRequest
    /\ pc' = "idle"
    /\ noteId' = <<>>
    /\ idToken' = <<>>
    /\ uid' = ""
    /\ text' = Undef
    /\ openAiResp' = NoResp
    /\ responses' = <<>>
    /\ trace' = <<>>
    /\ escaped' = FALSE
    /\ UNCHANGED <<env, store, mockVars>>

\* every configuration with two notes, and every note with three configurations
Init ==
    /\ \/ env \in Envs /\ store \in CoreStores
       \/ env \in CoreEnvs /\ store \in SummarizeStores
    /\ IdleHandler
    /\ mtext = Undef
    /\ mout = <<>>
    /\ mpc = "off"

Next ==
    \/ \E req \in PlainRequests : helloWorld(req)
    \/ \E req \in PlainRequests : getUserNotes(req)
    \/ getUserNotesVerified
    \/ \E readOk \in BOOLEAN : getUserNotesFetched(readOk)
    \/ \E req \in Requests : summarizeNote(req)
    \/ summarizeNoteVerified
    \/ \E readOk \in BOOLEAN : summarizeNoteFetched(readOk)
    \/ \E outcome \in FetchOutcomes : summarizeNoteFetchSettled(outcome)
    \/ summarizeNoteBodyRead
    \/ Finish

Spec == Init /\ [][Next]_vars

----------------------------------------------------------------------------
(* getUserNotes alone on stores that hold lists of notes                   *)

MaxNotes == 2

NoteIds == {N1, N2, <<"n", "3">>, <<"n", "4">>}

\* notes without fields, with a text field, and with a field that is named id
ListDatas ==
    {<<>>,
     [content |-> Str(Populated("content"))],
     [id |-> Str(<<"x">>), body |-> Str(Populated("body"))]}

NoteLists ==
    {l \in UNION {[1..k -> [id : NoteIds, data : ListDatas]] : k \in 0..MaxNotes} :
        \A i, j \in 1..Len(l) : i # j => l[i].id # l[j].id}

ListStores ==
    {[u \in Uids |-> IF u = "u1" THEN l ELSE o] :
        l \in NoteLists, o \in {<<>>, <<OtherUserNote>>}}

InitNotes ==
    /\ env = NoEnv
    /\ store \in ListStores
    /\ IdleHandler
    /\ mtext = Undef
    /\ mout = <<>>
    /\ mpc = "off"

NextNotes ==
    \/ \E req \in PlainRequests : getUserNotes(req)
    \/ getUserNotesVerified
    \/ \E readOk \in BOOLEAN : getUserNotesFetched(readOk)
    \/ Finish

SpecNotes == InitNotes /\ [][NextNotes]_vars

----------------------------------------------------------------------------
(* mockSummarize called alone on bounded texts                             *)

MaxPre == 1
MaxPost == 2

Alphabet == {"a", ".", "?", " ", "\t"}

SeqsUpTo(n) == UNION {[1..k -> Alphabet] : k \in 0..n}

Fill(k) == [i \in 1..k |-> "a"]

FillLens == {0, ClipLen - 2, ClipLen}

\* a short head, a run of letters around the clip length, a short tail
MockTexts ==
    {p \o Fill(k) \o q : p \in SeqsUpTo(MaxPre), k \in FillLens, q \in SeqsUpTo(MaxPost)}

MockArgs == {Undef} \cup {Str(s) : s \in MockTexts}

InitMock ==
    /\ env = [n \in {} |-> Undef]
    /\ store = [u \in {} |-> <<>>]
    /\ IdleHandler
    /\ mtext \in MockArgs
    /\ mout = <<>>
    /\ mpc = "call"

MockCall ==
    /\ mpc = "call"
    /\ mout' = mockSummarize(mtext)
    /\ mpc' = "done"
    /\ UNCHANGED <<mtext, handlerVars>>

NextMock == MockCall

SpecMock == InitMock /\ [][NextMock]_vars

----------------------------------------------------------------------------
(* Properties                                                              *)

InSummarize == handler = "summarizeNote"
InNotes == handler = "getUserNotes"
Ended == pc = "done"

Has(ev) == \E i \in 1..Len(trace) : trace[i] = ev
Count(ev) == Cardinality({i \in 1..Len(trace) : trace[i] = ev})
Blank(s) == \A i \in 1..Len(s) : IsWs(s[i])

\* the note id of a request: the query parameter when it carries one, else the
\* body field
PickedId(req) ==
    LET q == req.query.id
        b == IF req.body = Undef THEN Undef ELSE req.body.id
    IN IF q = Undef \/ q = Str(<<>>) THEN b ELSE q

IdMissing(req) ==
    \/ PickedId(req) = Undef
    \/ PickedId(req).t = "str" /\ Blank(PickedId(req).v)

\* C1: a summarizeNote request whose note id (query first, else body) is absent
\* or blank ends with 400 {error: "Missing note id"} whatever its credential,
\* and the identity backend is not asked.
C1_MissingIdIs400 ==
    (InSummarize /\ Ended /\ IdMissing(request)) =>
        /\ responses = <<JsonError(400, "Missing note id")>>
        /\ ~Has("verifyIdToken")

\* a blank query id hides the id of the body, and the valid token is not looked at
C1_Witness ==
    /\ InSummarize /\ Ended
    /\ request.query.id = Str(<<" ">>)
    /\ request.body = Obj(Str(<<"n", "1", " ">>))
    /\ request.headers.authorization = Str(BearerA)
    /\ responses = <<JsonError(400, "Missing note id")>>

FlagSet == env["USE_MOCK_OPENAI"] = Str(OneStr)

Mocked(r) == r.status = 200 /\ "mocked" \in DOMAIN r.body /\ r.body.mocked = TRUE

\* C2 as stated: with the force-mock flag set every summarizeNote request that
\* is answered is answered with mocked: true, and the backend is never called.
C2_AlwaysMocked ==
    (InSummarize /\ Ended /\ ~escaped /\ FlagSet) =>
        /\ Len(responses) = 1
        /\ Mocked(responses[1])
        /\ ~Has("fetch")

\* C2 amended: with the force-mock flag set the backend is never called, a
\* request that passed id parsing, authentication, note fetch and text
\* validation is answered 200 with mocked: true, and any other answered
\* request gets an error response without mocked.
C2_MockedOncePastValidation ==
    (InSummarize /\ FlagSet) =>
        /\ ~Has("fetch")
        /\ (Ended /\ ~escaped) =>
              /\ Len(responses) = 1
              /\ IF Has("TextValidated")
                 THEN responses[1] =
                        Json200([id |-> noteId, summary |-> mockSummarize(text),
                                 mocked |-> TRUE])
                 ELSE /\ responses[1].status \in {400, 401, 404, 500}
                      /\ "mocked" \notin DOMAIN responses[1].body

\* the flag wins over a configured key outside the emulator
C2_Witness ==
    /\ InSummarize /\ Ended /\ FlagSet
    /\ Truthy(apiKey) /\ ~isEmulator
    /\ Len(responses) = 1 /\ Mocked(responses[1])

\* C3: every invocation of a handler ends with exactly one response and no
\* exception leaves the handler.
C3_ExactlyOneResponse ==
    Ended => (Len(responses) = 1 /\ ~escaped)

Stages == {"Start", "IdParsed", "Authenticated", "NoteFetched", "TextValidated",
           "MockPath", "LivePath", "Responded"}

Calls == {"verifyIdToken", "noteGet", "fetch", "respText", "respJson"}

Rank(st) ==
    CASE st = "Start" -> 0
      [] st = "IdParsed" -> 1
      [] st = "Authenticated" -> 2
      [] st = "NoteFetched" -> 3
      [] st = "TextValidated" -> 4
      [] st \in {"MockPath", "LivePath"} -> 5
      [] OTHER -> 6

IsStage(e) == e \in Stages

StagesPassed == SelectSeq(trace, IsStage)

\* every a in the trace is preceded by a b
After(a, b) ==
    \A j \in 1..Len(trace) : trace[j] = a => \E i \in 1..(j - 1) : trace[i] = b

\* C5: the stages of a summarizeNote request come in the order Start, IdParsed,
\* Authenticated, NoteFetched, TextValidated, MockPath or LivePath, Responded,
\* any stage possibly going straight to Responded; the identity backend is
\* called only after a non-empty id was parsed, the store only after the token
\* was verified, the backend only after the note was found with a non-empty
\* text, and nothing follows the response.
C5_StageOrder ==
    InSummarize =>
        /\ StagesPassed # <<>> => StagesPassed[1] = "Start"
        /\ \A i \in 1..(Len(StagesPassed) - 1) :
              \/ Rank(StagesPassed[i + 1]) = Rank(StagesPassed[i]) + 1
              \/ StagesPassed[i + 1] = "Responded"
        /\ After("verifyIdToken", "IdParsed")
        /\ Has("verifyIdToken") => (noteId # <<>> /\ ~Blank(noteId))
        /\ After("noteGet", "Authenticated")
        /\ Has("noteGet") => verifyIdToken(idToken) = [ok |-> TRUE, uid |-> uid]
        /\ After("fetch", "TextValidated") /\ After("TextValidated", "NoteFetched")
        /\ Has("fetch") => /\ NoteSnap(uid, noteId).exists
                           /\ Truthy(text)
        /\ \A i \in 1..Len(trace) : trace[i] = "Responded" => i = Len(trace)
        /\ \A c \in Calls : Count(c) <= 1

\* the whole live path of one request
C5_Witness ==
    /\ InSummarize /\ Ended
    /\ trace = <<"Start", "IdParsed", "verifyIdToken", "Authenticated", "noteGet",
                 "NoteFetched", "TextValidated", "LivePath", "fetch", "respJson",
                 "Responded">>

\* C6: past text validation the path of a summarizeNote request is decided by
\* forceMock, isEmulator and the presence of an API key alone: mock (200 with
\* the summary of mockSummarize and mocked: true) when forceMock or emulator
\* without key, else 500 "OpenAI API key not configured" without key, else the
\* backend is called; it is never called without a key.
C6_PathByConfiguration ==
    (InSummarize /\ Has("TextValidated")) =>
        /\ IF forceMock \/ (isEmulator /\ ~Truthy(apiKey))
           THEN /\ responses = <<Json200([id |-> noteId, summary |-> mockSummarize(text),
                                          mocked |-> TRUE])>>
                /\ ~Has("fetch")
           ELSE IF ~Truthy(apiKey)
           THEN /\ responses = <<JsonError(500, "OpenAI API key not configured")>>
                /\ ~Has("fetch")
           ELSE Has("fetch") /\ Has("LivePath")
        /\ Has("fetch") => Truthy(apiKey)

\* in the emulator with a key and no flag the backend is called
C6_Witness ==
    /\ InSummarize /\ Has("TextValidated")
    /\ isEmulator /\ Truthy(apiKey) /\ ~forceMock
    /\ Has("fetch")

\* C4: the notes of a 200 response of getUserNotes are the documents under
\* users/uid/notes, one entry each in provider order, and each entry's id is
\* the store-assigned id of its document, whatever fields the document holds.
C4_NotesTaggedWithStoreId ==
    (InNotes /\ Ended /\ Len(responses) = 1 /\ responses[1].status = 200) =>
        LET notes == responses[1].body.notes
            docs == store[uid]
        IN /\ Len(notes) = Len(docs)
           /\ \A i \in 1..Len(docs) :
                 /\ notes[i]["id"] = Str(docs[i].id)
                 /\ \A f \in DOMAIN docs[i].data \ {"id"} :
                       f \in DOMAIN notes[i] /\ notes[i][f] = docs[i].data[f]

\* the backend call of the request failed: fetch rejected, the body could not
\* be read, or the status was not a success
BackendFailed ==
    \/ Has("fetchFailed")
    \/ Has("bodyReadFailed")
    \/ Has("respText")

Is502(r) ==
    /\ r.status = 502
    /\ r.body = [error |-> "Failed to summarize", details |-> openAiResp.read.text]

\* C7 as stated: a failed call to the backend is answered 502 {error: "Failed
\* to summarize", details: the raw body}, and the backend is called at most
\* once for a request.
C7_FailedCallIs502 ==
    /\ Count("fetch") <= 1
    /\ (InSummarize /\ Ended /\ BackendFailed) =>
          /\ Len(responses) = 1
          /\ openAiResp # NoResp /\ openAiResp.read.ok
          /\ Is502(responses[1])

\* C7 amended: a call answered with a non-success status whose body was read
\* is answered 502 {error: "Failed to summarize", details: the raw body}; a
\* call that throws, or whose body cannot be read, is answered 500 {error:
\* "Internal error"}; either way the backend is called at most once.
C7_Non2xxIs502ThrowIs500 ==
    /\ Count("fetch") <= 1
    /\ (InSummarize /\ Ended /\ BackendFailed) =>
          IF Has("fetchFailed") \/ Has("bodyReadFailed")
          THEN responses = <<JsonError(500, "Internal error")>>
          ELSE /\ ~openAiResp.ok
               /\ Len(responses) = 1
               /\ Is502(responses[1])

\* a non-success status with a readable body
C7_Witness ==
    /\ InSummarize /\ Ended
    /\ Has("respText") /\ ~Has("bodyReadFailed")
    /\ Len(responses) = 1 /\ responses[1].status = 502
    /\ responses[1].body.details = "rate limited"

\* C8: getUserNotes answers 401 "Unauthorized" for a missing or malformed
\* header, for a rejected token and for a failed store read alike, and 200
\* only when extraction, verification and the store read all succeeded.
C8_EveryFailureIs401 ==
    (InNotes /\ Ended) =>
        IF \/ ~MatchesBearer(AuthHeader(request).v)
           \/ Has("verifyRejected")
           \/ Has("notesGetFailed")
        THEN responses = <<Text(401, "Unauthorized")>>
        ELSE /\ Len(responses) = 1
             /\ responses[1].status = 200
             /\ responses[1].kind = "json"
             /\ Has("Authenticated") /\ Has("NotesFetched")

\* the store read fails after the token was verified
C8_Witness ==
    /\ InNotes /\ Ended
    /\ Has("Authenticated") /\ Has("notesGetFailed")
    /\ responses = <<Text(401, "Unauthorized")>>

IsPresent(data, f) == f \in DOMAIN data

IsPopulated(data, f) == f \in DOMAIN data /\ data[f] # Str(<<>>)

\* the first of content, text, body that the note has as a field, "" if none
FirstPresent(data) ==
    IF IsPresent(data, "content") THEN "content"
    ELSE IF IsPresent(data, "text") THEN "text"
    ELSE IF IsPresent(data, "body") THEN "body"
    ELSE ""

\* the first of content, text, body that holds a non-empty value, "" if none
FirstPopulated(data) ==
    IF IsPopulated(data, "content") THEN "content"
    ELSE IF IsPopulated(data, "text") THEN "text"
    ELSE IF IsPopulated(data, "body") THEN "body"
    ELSE ""

RejectedNoText ==
    /\ Ended
    /\ responses = <<JsonError(400, "Note has no text field (expected content/text/body)")>>

FetchedData == NoteSnap(uid, noteId).data

\* C9 as stated: the text of an existing note is the value of the first field
\* present among content, text, body, and the request is rejected with 400
\* "Note has no text field" exactly when none of the three is populated.
C9_FirstPresentWins ==
    (InSummarize /\ Has("NoteFetched")) =>
        /\ FirstPresent(FetchedData) # "" =>
              text = FetchedData[FirstPresent(FetchedData)]
        /\ RejectedNoText <=> FirstPopulated(FetchedData) = ""

\* C9 amended: the text of an existing note is the value of the first field
\* among content, text, body that holds a non-empty value (an empty field is
\* passed over like an absent one), and the request is rejected with 400 "Note
\* has no text field" exactly when no field holds one.
C9_FirstPopulatedWins ==
    (InSummarize /\ Has("NoteFetched")) =>
        /\ FirstPopulated(FetchedData) # "" =>
              text = FetchedData[FirstPopulated(FetchedData)]
        /\ RejectedNoText <=> FirstPopulated(FetchedData) = ""

\* an empty content is passed over and text, before body, is taken
C9_Witness ==
    /\ InSummarize /\ Has("TextValidated")
    /\ FetchedData = [content |-> Str(<<>>), text |-> Str(Populated("text")),
                      body |-> Str(Populated("body"))]
    /\ text = Str(Populated("text"))

\* the normalized text of §4.2 step 1
Normalized(x) == CollapseWs(Trim(ToStringSeq(x)))

SentenceBreaks(t) ==
    {i \in 2..Len(t) : t[i] = " " /\ t[i - 1] \in {".", "!", "?"}}

\* the text before the first sentence break, `whole` when there is none
FirstSegment(t, whole) ==
    IF SentenceBreaks(t) = {} THEN whole
    ELSE SubSeq(t, 1, (CHOOSE i \in SentenceBreaks(t) :
                          \A j \in SentenceBreaks(t) : i <= j) - 1)

Clip(seg) ==
    IF Len(seg) > ClipLen THEN SubSeq(seg, 1, ClipLen) \o <<Ellipsis>> ELSE seg

\* the steps of §4.2 with the fallback `whole` of step 3
Steps(x, whole) ==
    IF Normalized(x) = <<>> THEN NotaVacia
    ELSE Label \o Clip(FirstSegment(Normalized(x), whole))

First240(t) == SubSeq(t, 1, IF Len(t) < ClipLen THEN Len(t) ELSE ClipLen)

\* C10 as stated: mockSummarize returns the result of the steps of §4.2, the
\* segment being the first 240 characters of the normalized text when it has
\* no sentence break.
C10_ReferenceSteps ==
    mpc = "done" => mout = Steps(mtext, First240(Normalized(mtext)))

\* C10 amended: mockSummarize returns the result of the steps of §4.2 with the
\* whole normalized text as the segment when it has no sentence break (so a
\* text of more than 240 characters without a break is cut to 240 and gets the
\* ellipsis); the segment after the label never exceeds 240 characters plus
\* the ellipsis.
C10_WholeTextWhenNoBreak ==
    mpc = "done" =>
        /\ mout = Steps(mtext, Normalized(mtext))
        /\ mout # NotaVacia => Len(mout) - Len(Label) <= ClipLen + 1

\* a text of more than 240 characters without a sentence break
C10_Witness ==
    /\ mpc = "done"
    /\ SentenceBreaks(Normalized(mtext)) = {}
    /\ Len(Normalized(mtext)) > ClipLen
    /\ Len(mout) = Len(Label) + ClipLen + 1
    /\ mout[Len(mout)] = Ellipsis

====
